---- MODULE Spec2Model ----
(***************************************************************************)
(* mongodb-elasticsearch-sync: MongoElasticSync.run and its helpers        *)
(* (src/src/index.ts).  Spec is the run() orchestration against a MongoDB  *)
(* source and an Elasticsearch destination; SpecSchema applies the pure    *)
(* helpers findBestProbabilityType, getCollectionSchema and getMapping to  *)
(* bounded inputs.                                                         *)
(***************************************************************************)
EXTENDS Integers, Sequences, FiniteSets

VARIABLES
  collections,        \* db.listCollections().toArray(): the collection names, in discovery order
  singularizeName,    \* flags.singularizeName
  mongo,              \* the source database: collection name -> documents in natural order
  es,                 \* the destination: index name -> [exists, props, docs]
  esInit,             \* the destination as it was before the run (history)
  collectionsSchemas, \* const collectionsSchemas = []
  mappings,           \* const mappings
  pc,                 \* the await run() is suspended at
  i,                  \* position of the running for-of loop (1-based)
  exists,             \* const exists
  bulk,               \* const bulk = []
  log,                \* every call issued to the search engine, in order (history)
  errorMsg,           \* the message this.error() was called with
  failedAt,           \* the await at which run() threw (history)
  typesIn, bestOut,   \* SpecSchema: findBestProbabilityType argument and result
  schemaIn, schemaOut,\* SpecSchema: getCollectionSchema argument and result
  fieldsIn, mappingOut \* SpecSchema: getMapping argument and result

vars == <<collections, singularizeName, mongo, es, esInit, collectionsSchemas,
          mappings, pc, i, exists, bulk, log, errorMsg, failedAt,
          typesIn, bestOut, schemaIn, schemaOut, fieldsIn, mappingOut>>

runVars == <<collections, singularizeName, mongo, es, esInit, collectionsSchemas,
             mappings, pc, i, exists, bulk, log, errorMsg, failedAt>>

pureVars == <<typesIn, bestOut, schemaIn, schemaOut, fieldsIn, mappingOut>>

(***************************************************************************)
(* Bounds                                                                  *)
(***************************************************************************)
MaxColls == 3      \* collections listed by the source
MaxDocs == 2       \* documents in the source database
MaxTypes == 3      \* observations in one list given to findBestProbabilityType
MaxProb == 2       \* probabilities are k / MaxProb, k \in 0..MaxProb
MaxFields == 3     \* entries of a field list given to getMapping

(***************************************************************************)
(* Values and documents.  A value is [t, s, f]: its JavaScript kind, its   *)
(* scalar text, and for an object or an array its members <<key, t, s>>.   *)
(***************************************************************************)
V(t, s) == [t |-> t, s |-> s, f |-> {}]

Obj(members) == [t |-> "Object", s |-> "", f |-> members]

Arr(members) == [t |-> "Array", s |-> "", f |-> members]

\* Sample documents of a source collection.  _id is a number in the first,
\* a string in the second and an ObjectID in the third.
DocUniverse ==
  { [_id |-> V("Number", "1"), __v |-> V("Number", "0"),
     name |-> V("String", "Ann"), age |-> V("Number", "30")],
    [_id |-> V("String", "1"), name |-> V("String", "Bob"),
     signup |-> V("Date", "0"),
     loc |-> Obj({<<"lat", "Number", "2.3">>, <<"lon", "Number", "48.1">>})],
    [_id |-> V("ObjectID", "5f1a"), id |-> V("String", "x"),
     age |-> V("String", "old"),
     tags |-> Arr({<<"0", "String", "a">>, <<"1", "String", "b">>}),
     meta |-> Obj({<<"at", "Date", "0">>, <<"n", "Number", "1">>})] }

\* _id.toString() (line 113): a number and a string print alike, an ObjectID
\* prints its hex digits, a plain object prints "[object Object]".
toString(v) == IF v.t = "Object" THEN "[object Object]" ELSE v.s

\* Date.prototype.toISOString (line 220) of the date with the given epoch text.
toISOString(s) == IF s = "0" THEN "1970-01-01T00:00:00.000Z" ELSE "2020-01-01T00:00:00.000Z"

\* pluralize.singular (lines 110, 155) on the collection names of the model.
singular(name) ==
  CASE name = "users" -> "user"
    [] name = "logs" -> "log"
    [] OTHER -> name

Names == {"users", "user", "logs"}

IndexNames == Names \cup {singular(n) : n \in Names}

(***************************************************************************)
(* findBestProbabilityType (lines 202-213)                                 *)
(***************************************************************************)
NotUndefined(types) == SelectSeq(types, LAMBDA t : t.name # "Undefined")

\* A reduce callback that lets a later entry of equal probability win.
ReduceStepLastWins(max, type) == IF type.probability >= max.probability THEN type ELSE max

\* The callback of reduce (line 210): the later entry wins only when strictly
\* more probable.
ReduceStep(max, type) == IF type.probability > max.probability THEN type ELSE max

RECURSIVE ReduceFrom(_, _, _)
ReduceFrom(seq, k, max) ==
  IF k > Len(seq) THEN max ELSE ReduceFrom(seq, k + 1, ReduceStep(max, seq[k]))

\* Array.prototype.reduce without an initial value, on a non-empty array.
Reduce(seq) == ReduceFrom(seq, 2, seq[1])

findBestProbabilityType(types) ==
  IF Len(NotUndefined(types)) = 0
    THEN [name |-> "String"]
    ELSE Reduce(NotUndefined(types))

(***************************************************************************)
(* getCollectionSchema (lines 166-200)                                     *)
(***************************************************************************)
NULL == [null |-> "null"]

HasFieldNamed(fields, n) == \E k \in DOMAIN fields : fields[k].name = n

\* The callback of schema.fields.map (lines 169-198).
ResolveField(s) ==
  LET type == findBestProbabilityType(s.types) IN
    IF type.name = "Array"
      THEN [name |-> s.name,
            type |-> findBestProbabilityType(type.types).name,
            isArray |-> TRUE]
      ELSE IF type.name = "Document"
        THEN IF /\ HasFieldNamed(type.fields, "lat")
                /\ HasFieldNamed(type.fields, "lon")
                /\ Len(type.fields) = 2
               THEN [name |-> s.name, type |-> "GeoPoint", isArray |-> FALSE]
               ELSE NULL
        ELSE [name |-> s.name, type |-> type.name]

getCollectionSchema(collection, schema) ==
  [name |-> collection.name,
   fields |-> [k \in 1..Len(schema.fields) |-> ResolveField(schema.fields[k])]]

(***************************************************************************)
(* getMapping (lines 131-164)                                              *)
(***************************************************************************)
exclude == {"id", "__v", "_id"}

\* A filter that drops the null entries and keeps the reserved names.
FilterFieldsKeepReserved(fields) == SelectSeq(fields, LAMBDA f : f # NULL)

\* fields.filter((f) => f).filter((f) => !exclude.includes(f.name))
FilterFields(fields) ==
  SelectSeq(SelectSeq(fields, LAMBDA f : f # NULL), LAMBDA f : f.name \notin exclude)

MappedTypes == {"String", "Number", "Boolean", "Date", "GeoPoint"}

\* The if / else-if chain of lines 139-152; a type outside it assigns nothing.
Property(type) ==
  CASE type = "String" ->
         [type |-> "text",
          fields |-> [keyword |-> [type |-> "keyword", ignore_above |-> 256]]]
    [] type = "Number" -> [type |-> "double"]
    [] type = "Boolean" -> [type |-> "boolean"]
    [] type = "Date" -> [type |-> "date"]
    [] type = "GeoPoint" -> [type |-> "geo_point"]

\* The object the loop of lines 136-153 leaves in `mapping`: a later field
\* overwrites an earlier one of the same name.
Properties(fields) ==
  LET kept == SelectSeq(FilterFields(fields), LAMBDA f : f.type \in MappedTypes)
      last(n) == CHOOSE k \in DOMAIN kept :
                   /\ kept[k].name = n
                   /\ \A j \in DOMAIN kept : kept[j].name = n => j <= k
  IN [n \in {kept[k].name : k \in DOMAIN kept} |-> Property(kept[last(n)].type)]

\* Line 155.
MappingIndex(name, singularize) == IF singularize THEN singular(name) ELSE name

getMapping(collectionSchema, singularize) ==
  [index |-> MappingIndex(collectionSchema.name, singularize),
   type |-> "_doc",
   include_type_name |-> TRUE,
   body |-> [_doc |-> [properties |-> Properties(collectionSchema.fields)]]]

(***************************************************************************)
(* serialize (lines 215-230)                                               *)
(***************************************************************************)
\* serialize applied to a nested object: its date members become ISO text.
SerializeMembers(members) ==
  { IF m[2] = "Date" THEN <<m[1], "String", toISOString(m[3])>> ELSE m : m \in members }

SerializeValue(value) ==
  IF value.t = "Date" THEN V("String", toISOString(value.s))
  ELSE IF value.t = "Array" THEN value
  ELSE IF value.t = "Object" THEN Obj(SerializeMembers(value.f))
  ELSE value

\* A serialize that leaves the date fields out.
serializeNoDates(data) ==
  [key \in {k \in DOMAIN data : data[k].t # "Date"} |-> SerializeValue(data[key])]

serialize(data) == [key \in DOMAIN data |-> SerializeValue(data[key])]

(***************************************************************************)
(* parseSchemaPromise (lines 7-17): the result mongodb-schema resolves     *)
(* with for a collection's documents.  A field's types carry the number of *)
(* documents holding that type as their probability (all over the same     *)
(* total), "Undefined" for the documents lacking the field.                *)
(***************************************************************************)
FieldOrder == <<"__v", "_id", "age", "id", "loc", "meta", "name", "signup", "tags">>

KindOrder == <<"Array", "Date", "Number", "Object", "ObjectID", "String">>

MemberOrder == <<"0", "1", "at", "lat", "lon", "n">>

SchemaTypeName(kind) == IF kind = "Object" THEN "Document" ELSE kind

Holders(docs, key, kind) ==
  {k \in DOMAIN docs : key \in DOMAIN docs[k] /\ docs[k][key].t = kind}

MembersOf(docs, key, kind) == UNION {docs[k][key].f : k \in Holders(docs, key, kind)}

ElementTypes(members) ==
  LET kinds == SelectSeq(KindOrder, LAMBDA t : \E m \in members : m[2] = t)
  IN [k \in DOMAIN kinds |->
        [name |-> SchemaTypeName(kinds[k]),
         probability |-> Cardinality({m \in members : m[2] = kinds[k]})]]

NestedFields(members) ==
  LET keys == SelectSeq(MemberOrder, LAMBDA n : \E m \in members : m[1] = n)
  IN [k \in DOMAIN keys |-> [name |-> keys[k]]]

FieldTypes(docs, key) ==
  LET kinds == SelectSeq(KindOrder, LAMBDA t : Holders(docs, key, t) # {})
      missing == Cardinality({k \in DOMAIN docs : key \notin DOMAIN docs[k]})
      seen == [k \in DOMAIN kinds |->
                 [name |-> SchemaTypeName(kinds[k]),
                  probability |-> Cardinality(Holders(docs, key, kinds[k])),
                  types |-> IF kinds[k] = "Array"
                              THEN ElementTypes(MembersOf(docs, key, "Array"))
                              ELSE <<>>,
                  fields |-> IF kinds[k] = "Object"
                               THEN NestedFields(MembersOf(docs, key, "Object"))
                               ELSE <<>>]]
  IN IF missing > 0
       THEN Append(seen, [name |-> "Undefined", probability |-> missing,
                          types |-> <<>>, fields |-> <<>>])
       ELSE seen

parseSchema(docs) ==
  LET keys == SelectSeq(FieldOrder, LAMBDA n : \E k \in DOMAIN docs : n \in DOMAIN docs[k])
  IN [count |-> Len(docs),
      fields |-> [k \in DOMAIN keys |-> [name |-> keys[k], types |-> FieldTypes(docs, keys[k])]]]

(***************************************************************************)
(* The search engine: es.indices.exists / delete / create / putMapping     *)
(* and es.bulk, as the calls of lines 84-87 and 119-122 use them.          *)
(***************************************************************************)
Absent == [exists |-> FALSE, props |-> <<>>, docs |-> {}]

EmptyIndex == [exists |-> TRUE, props |-> <<>>, docs |-> {}]

\* An index an earlier run (or anyone else) left behind.
OldIndex ==
  [exists |-> TRUE, props |-> <<>>,
   docs |-> {[id |-> "old", body |-> [name |-> V("String", "stale")]]}]

\* One "index" action of a bulk request: the document replaces the one of
\* the same _id; a missing index is created on the fly.
IndexOne(state, action, body) ==
  LET n == action.index._index
      kept == {d \in state[n].docs : d.id # action.index._id}
  IN [state EXCEPT ![n] = [exists |-> TRUE, props |-> state[n].props,
                           docs |-> kept \cup {[id |-> action.index._id, body |-> body]}]]

RECURSIVE ApplyBulk(_, _, _)
ApplyBulk(state, body, p) ==
  IF p + 1 > Len(body)
    THEN state
    ELSE ApplyBulk(IndexOne(state, body[p], body[p + 1]), body, p + 2)

(***************************************************************************)
(* The bulk body of one collection (lines 104-117)                         *)
(***************************************************************************)
\* const { _id, __v, ...data } = document
Data(document) == [key \in (DOMAIN document) \ {"_id", "__v"} |-> document[key]]

\* A bulk action that always targets the index named after the collection.
BulkIndexPlural(name, singularize) == name

\* Lines 109-111.
BulkIndex(name, singularize) == IF singularize THEN singular(name) ELSE name

BulkAction(name, singularize, document) ==
  [index |-> [_index |-> BulkIndex(name, singularize),
              _type |-> "_doc",
              _id |-> toString(document._id)]]

BuildBulk(name, singularize, collectionData) ==
  [p \in 1..(2 * Len(collectionData)) |->
     IF p % 2 = 1
       THEN BulkAction(name, singularize, collectionData[(p + 1) \div 2])
       ELSE serialize(Data(collectionData[p \div 2]))]

(***************************************************************************)
(* Inputs of a run                                                         *)
(***************************************************************************)
Distinct(seq) == \A a, b \in DOMAIN seq : a # b => seq[a] # seq[b]

SeqsUpTo(S, n) == UNION {[1..k -> S] : k \in 0..n}

\* listCollections: distinct collection names, in any order.
CollectionLists ==
  { [k \in DOMAIN names |-> [name |-> names[k]]] :
      names \in {s \in SeqsUpTo(Names, MaxColls) : Distinct(s)} }

\* The documents of one collection: _id is unique within it.
Contents ==
  { s \in SeqsUpTo(DocUniverse, MaxDocs) :
      \A a, b \in DOMAIN s : a # b => s[a]._id # s[b]._id }

Listed(colls) == {colls[k].name : k \in DOMAIN colls}

RECURSIVE SumLen(_, _)
SumLen(db, S) ==
  IF S = {} THEN 0
  ELSE LET n == CHOOSE x \in S : TRUE IN Len(db[n]) + SumLen(db, S \ {n})

Databases(colls) ==
  { db \in [Names -> Contents] :
      /\ \A n \in Names \ Listed(colls) : db[n] = <<>>
      /\ SumLen(db, Names) <= MaxDocs }

\* Indexes that may be there before the run.
PreIndexes == {"user", "logs"}

Destinations ==
  { [n \in IndexNames |-> IF n \in pre THEN OldIndex ELSE Absent] : pre \in SUBSET PreIndexes }

PureIdle ==
  /\ typesIn = <<>>
  /\ bestOut = [name |-> "String"]
  /\ schemaIn = [fields |-> <<>>]
  /\ schemaOut = [name |-> "", fields |-> <<>>]
  /\ fieldsIn = [name |-> "", fields |-> <<>>]
  /\ mappingOut = getMapping([name |-> "", fields |-> <<>>], FALSE)

Init ==
  /\ collections \in CollectionLists
  /\ singularizeName \in BOOLEAN
  /\ mongo \in Databases(collections)
  /\ es \in Destinations
  /\ esInit = es
  /\ collectionsSchemas = <<>>
  /\ mappings = <<>>
  /\ pc = "probe"
  /\ i = 1
  /\ exists = FALSE
  /\ bulk = <<>>
  /\ log = <<>>
  /\ errorMsg = <<>>
  /\ failedAt = ""
  /\ PureIdle

(***************************************************************************)
(* run() (lines 39-129), one action per await                              *)
(***************************************************************************)
Call(op, ok, res, body) ==
  [op |-> op, k |-> i, index |-> mappings[i].index, ok |-> ok, res |-> res, body |-> body]

\* A rejected promise or a thrown error leaves run().
Throw(at) ==
  /\ pc' = "failed"
  /\ failedAt' = at

\* A schema loop that already creates the collection's index.
ProbeAndCreate ==
  /\ pc = "probe"
  /\ i <= Len(collections)
  /\ LET collection == collections[i]
         schema == parseSchema(mongo[collection.name])
     IN /\ collectionsSchemas' =
             Append(collectionsSchemas, getCollectionSchema(collection, schema))
        /\ es' = [es EXCEPT ![MappingIndex(collection.name, singularizeName)] = EmptyIndex]
        /\ log' = Append(log, [op |-> "create", k |-> i,
                               index |-> MappingIndex(collection.name, singularizeName),
                               ok |-> TRUE, res |-> "", body |-> <<>>])
  /\ i' = i + 1
  /\ UNCHANGED <<collections, singularizeName, mongo, esInit, mappings, pc,
                 exists, bulk, errorMsg, failedAt, pureVars>>

\* Lines 62-68, one iteration: the probe resolves.
Probe ==
  /\ pc = "probe"
  /\ i <= Len(collections)
  /\ LET collection == collections[i]
         schema == parseSchema(mongo[collection.name])
     IN collectionsSchemas' =
          Append(collectionsSchemas, getCollectionSchema(collection, schema))
  /\ i' = i + 1
  /\ UNCHANGED <<collections, singularizeName, mongo, es, esInit, mappings, pc,
                 exists, bulk, log, errorMsg, failedAt, pureVars>>

\* Lines 9-11: the probe rejects.
ProbeReject ==
  /\ pc = "probe"
  /\ i <= Len(collections)
  /\ Throw("probe")
  /\ UNCHANGED <<collections, singularizeName, mongo, es, esInit, collectionsSchemas,
                 mappings, i, exists, bulk, log, errorMsg, pureVars>>

\* Where run() goes once the mappings are built (lines 82, 92).
AfterMappings(n) == IF n = 0 THEN "fetch" ELSE "exists"

\* Lines 73-75.
ConvertMappings ==
  /\ pc = "probe"
  /\ i > Len(collections)
  /\ mappings' = [k \in DOMAIN collectionsSchemas |->
                    getMapping(collectionsSchemas[k], singularizeName)]
  /\ i' = 1
  /\ pc' = AfterMappings(Len(collectionsSchemas))
  /\ UNCHANGED <<collections, singularizeName, mongo, es, esInit, collectionsSchemas,
                 exists, bulk, log, errorMsg, failedAt, pureVars>>

\* A reset loop that never deletes.
AfterExistsNoDelete(found) == "create"

\* Line 85: if (exists) delete, then line 86.
AfterExists(found) == IF found THEN "delete" ELSE "create"

\* Line 84.
Exists ==
  /\ pc = "exists"
  /\ exists' = es[mappings[i].index].exists
  /\ log' = Append(log, Call("exists", TRUE, IF exists' THEN "true" ELSE "false", <<>>))
  /\ pc' = AfterExists(exists')
  /\ UNCHANGED <<collections, singularizeName, mongo, es, esInit, collectionsSchemas,
                 mappings, i, bulk, errorMsg, failedAt, pureVars>>

\* Line 85.
Delete ==
  /\ pc = "delete"
  /\ es' = [es EXCEPT ![mappings[i].index] = Absent]
  /\ log' = Append(log, Call("delete", TRUE, "", <<>>))
  /\ pc' = "create"
  /\ UNCHANGED <<collections, singularizeName, mongo, esInit, collectionsSchemas,
                 mappings, i, exists, bulk, errorMsg, failedAt, pureVars>>

\* Line 86; the search engine refuses to create an index that exists.
Create ==
  /\ pc = "create"
  /\ IF es[mappings[i].index].exists
       THEN /\ log' = Append(log, Call("create", FALSE, "resource_already_exists_exception", <<>>))
            /\ Throw("create")
            /\ UNCHANGED es
       ELSE /\ es' = [es EXCEPT ![mappings[i].index] = EmptyIndex]
            /\ log' = Append(log, Call("create", TRUE, "", <<>>))
            /\ pc' = "putMapping"
            /\ UNCHANGED failedAt
  /\ UNCHANGED <<collections, singularizeName, mongo, esInit, collectionsSchemas,
                 mappings, i, exists, bulk, errorMsg, pureVars>>

\* A loop that starts syncing as soon as one index is reset.
AfterPutMappingSyncAtOnce(k, n) == [pc |-> "fetch", i |-> k]

\* The for-of of line 82 after one iteration: the next mapping, or the sync
\* loop of line 92.
AfterPutMapping(k, n) ==
  IF k < n THEN [pc |-> "exists", i |-> k + 1] ELSE [pc |-> "fetch", i |-> 1]

\* Line 87; the search engine has no mapping to put on a missing index.
PutMapping ==
  /\ pc = "putMapping"
  /\ IF es[mappings[i].index].exists
       THEN /\ es' = [es EXCEPT ![mappings[i].index].props =
                                    mappings[i].body._doc.properties]
            /\ log' = Append(log, Call("putMapping", TRUE, "", <<>>))
            /\ pc' = AfterPutMapping(i, Len(mappings)).pc
            /\ i' = AfterPutMapping(i, Len(mappings)).i
            /\ UNCHANGED failedAt
       ELSE /\ log' = Append(log, Call("putMapping", FALSE, "index_not_found_exception", <<>>))
            /\ Throw("putMapping")
            /\ UNCHANGED <<es, i>>
  /\ UNCHANGED <<collections, singularizeName, mongo, esInit, collectionsSchemas,
                 mappings, exists, bulk, errorMsg, pureVars>>

\* Lines 95-118: count and fetch the collection, build its bulk body; an
\* empty body is not submitted.
Fetch ==
  /\ pc = "fetch"
  /\ i <= Len(collectionsSchemas)
  /\ LET collectionSchema == collectionsSchemas[i]
         collectionData == mongo[collectionSchema.name]
     IN bulk' = BuildBulk(collectionSchema.name, singularizeName, collectionData)
  /\ log' = Append(log, Call("find", TRUE, "", <<>>))
  /\ IF Len(bulk') > 0
       THEN pc' = "bulk" /\ UNCHANGED i
       ELSE pc' = "fetch" /\ i' = i + 1
  /\ UNCHANGED <<collections, singularizeName, mongo, es, esInit, collectionsSchemas,
                 mappings, exists, errorMsg, failedAt, pureVars>>

\* Lines 95-102: the count or the fetch rejects.
FetchReject ==
  /\ pc = "fetch"
  /\ i <= Len(collectionsSchemas)
  /\ Throw("fetch")
  /\ UNCHANGED <<collections, singularizeName, mongo, es, esInit, collectionsSchemas,
                 mappings, i, exists, bulk, log, errorMsg, pureVars>>

\* An error report that does not throw.
AfterBulkNoThrow(error) == "fetch"

\* Lines 123-125: this.error throws when res.error is set.
AfterBulk(error) == IF error # "" THEN "failed" ELSE "fetch"

\* Lines 119-125: the bulk request answers, with or without a top-level
\* error; a request answered with an error has indexed nothing.
Bulk ==
  /\ pc = "bulk"
  /\ \E error \in {"", "illegal_argument_exception"} :
       LET res == [error |-> error] IN
         /\ es' = IF res.error = "" THEN ApplyBulk(es, bulk, 1) ELSE es
         /\ log' = Append(log, Call("bulk", TRUE, res.error, bulk))
         /\ pc' = AfterBulk(res.error)
         /\ IF res.error # ""
              THEN /\ errorMsg' = <<"Error syncing ", collectionsSchemas[i].name, ": ", res.error>>
                   /\ failedAt' = IF pc' = "failed" THEN "bulk" ELSE failedAt
                   /\ i' = IF pc' = "failed" THEN i ELSE i + 1
              ELSE /\ i' = i + 1
                   /\ UNCHANGED <<errorMsg, failedAt>>
  /\ UNCHANGED <<collections, singularizeName, mongo, esInit, collectionsSchemas,
                 mappings, exists, bulk, pureVars>>

EsCalls == {"exists", "delete", "create", "putMapping", "bulk"}

\* Any call of lines 84-87 and 119 rejects (the engine is unreachable, or
\* refuses): nothing is changed and run() throws.
EsReject ==
  /\ pc \in EsCalls
  /\ log' = Append(log, Call(pc, FALSE, "rejected", IF pc = "bulk" THEN bulk ELSE <<>>))
  /\ Throw(pc)
  /\ UNCHANGED <<collections, singularizeName, mongo, es, esInit, collectionsSchemas,
                 mappings, i, exists, bulk, errorMsg, pureVars>>

\* Line 128.
Close ==
  /\ pc = "fetch"
  /\ i > Len(collectionsSchemas)
  /\ pc' = "done"
  /\ UNCHANGED <<collections, singularizeName, mongo, es, esInit, collectionsSchemas,
                 mappings, i, exists, bulk, log, errorMsg, failedAt, pureVars>>

Next ==
  \/ Probe
  \/ ProbeReject
  \/ ConvertMappings
  \/ Exists
  \/ Delete
  \/ Create
  \/ PutMapping
  \/ Fetch
  \/ FetchReject
  \/ Bulk
  \/ EsReject
  \/ Close

Spec == Init /\ [][Next]_vars

(***************************************************************************)
(* SpecSchema: the pure helpers on bounded inputs                          *)
(***************************************************************************)
Probabilities == 0..MaxProb

\* Observation lists for findBestProbabilityType.
TypeLists ==
  SeqsUpTo({[name |-> n, probability |-> p] :
              n \in {"Undefined", "String", "Number"}, p \in Probabilities}, MaxTypes)

\* Element observations of an Array type.
ElementLists ==
  {s \in SeqsUpTo({[name |-> n, probability |-> p] :
                     n \in {"String", "Array"}, p \in 1..MaxProb}, 2) : Len(s) > 0}

\* Nested field lists of a Document type.
DocumentShapes ==
  { [k \in DOMAIN names |-> [name |-> names[k]]] :
      names \in {<<"lat", "lon">>, <<"lon", "lat">>, <<"lat", "lon", "alt">>,
                 <<"lat", "alt">>, <<"lat", "lat">>} }

\* The observations of one field as the probe reports them.
Observations ==
  {[name |-> n, probability |-> p, types |-> <<>>, fields |-> <<>>] :
     n \in {"Undefined", "String"}, p \in Probabilities}
  \cup {[name |-> "Array", probability |-> 1, types |-> e, fields |-> <<>>] :
          e \in ElementLists}
  \cup {[name |-> "Document", probability |-> 1, types |-> <<>>, fields |-> f] :
          f \in DocumentShapes}

FieldObservations ==
  {[name |-> "tags", types |-> t] : t \in {s \in SeqsUpTo(Observations, 2) : Len(s) > 0}}

\* A nested document and a plain string field, put in front of the field
\* under study.
LeadingFields ==
  { [name |-> "meta",
     types |-> <<[name |-> "Document", probability |-> 1, types |-> <<>>,
                  fields |-> <<[name |-> "at"]>>]>>],
    [name |-> "name",
     types |-> <<[name |-> "String", probability |-> 1, types |-> <<>>, fields |-> <<>>]>>] }

RawSchemas ==
  {[fields |-> <<>>]}
  \cup {[fields |-> <<f>>] : f \in FieldObservations}
  \cup {[fields |-> <<g, f>>] : g \in LeadingFields, f \in FieldObservations}

\* Resolved fields as getCollectionSchema can leave them, null included.
ResolvedFields ==
  {NULL}
  \cup {[name |-> n, type |-> t] :
          n \in {"_id", "__v", "id", "name"}, t \in {"String", "ObjectID"}}
  \cup {[name |-> n, type |-> "GeoPoint", isArray |-> FALSE] : n \in {"id", "loc"}}

InitSchema ==
  /\ collections = <<>>
  /\ singularizeName = FALSE
  /\ mongo = [n \in Names |-> <<>>]
  /\ es = [n \in IndexNames |-> Absent]
  /\ esInit = es
  /\ collectionsSchemas = <<>>
  /\ mappings = <<>>
  /\ pc = "idle"
  /\ i = 1
  /\ exists = FALSE
  /\ bulk = <<>>
  /\ log = <<>>
  /\ errorMsg = <<>>
  /\ failedAt = ""
  /\ PureIdle

\* Each helper is called once, on an argument drawn from its bounded set.
UnchangedButPc ==
  UNCHANGED <<collections, singularizeName, mongo, es, esInit, collectionsSchemas,
              mappings, i, exists, bulk, log, errorMsg, failedAt>>

ResolveType ==
  /\ pc = "idle"
  /\ \E types \in TypeLists :
       /\ typesIn' = types
       /\ bestOut' = findBestProbabilityType(types)
  /\ pc' = "returned"
  /\ UNCHANGED <<schemaIn, schemaOut, fieldsIn, mappingOut>>
  /\ UnchangedButPc

CompileSchema ==
  /\ pc = "idle"
  /\ \E schema \in RawSchemas :
       /\ schemaIn' = schema
       /\ schemaOut' = getCollectionSchema([name |-> "users"], schema)
  /\ pc' = "returned"
  /\ UNCHANGED <<typesIn, bestOut, fieldsIn, mappingOut>>
  /\ UnchangedButPc

CompileMapping ==
  /\ pc = "idle"
  /\ \E fields \in SeqsUpTo(ResolvedFields, MaxFields), singularize \in BOOLEAN :
       /\ fieldsIn' = [name |-> "users", fields |-> fields]
       /\ mappingOut' = getMapping(fieldsIn', singularize)
  /\ pc' = "returned"
  /\ UNCHANGED <<typesIn, bestOut, schemaIn, schemaOut>>
  /\ UnchangedButPc

NextSchema ==
  \/ ResolveType
  \/ CompileSchema
  \/ CompileMapping

SpecSchema == InitSchema /\ [][NextSchema]_vars

(***************************************************************************)
(* Properties of the helpers, under SpecSchema                             *)
(***************************************************************************)
Candidates == {k \in DOMAIN typesIn : typesIn[k].name # "Undefined"}

\* C6: when the list holds an entry that is not Undefined,
\* findBestProbabilityType returns an entry that is not Undefined, at least
\* as probable as every other such entry, and the first of the list among
\* those of that highest probability.
C6_BestIsFirstMostProbable ==
  (pc = "returned" /\ Candidates # {}) =>
    LET top == {k \in Candidates :
                  \A j \in Candidates : typesIn[k].probability >= typesIn[j].probability}
        first == CHOOSE k \in top : \A j \in top : k <= j
    IN /\ bestOut = typesIn[first]
       /\ bestOut.name # "Undefined"
       /\ \A j \in Candidates : bestOut.probability >= typesIn[j].probability

\* Two entries of different names tie for the highest probability behind a
\* more probable Undefined entry, and the earlier of the two is returned.
C6_Witness ==
  /\ pc = "returned"
  /\ Len(typesIn) = 3
  /\ typesIn[1].name = "Undefined"
  /\ typesIn[1].probability > typesIn[2].probability
  /\ typesIn[2].name = "Number"
  /\ typesIn[3].name = "String"
  /\ typesIn[2].probability = typesIn[3].probability
  /\ bestOut = typesIn[2]

\* C7: the property table getMapping returns has no entry named _id, __v
\* or id, whatever the types of the fields and with or without null entries.
C7_NoReservedProperty ==
  pc = "returned" =>
    (DOMAIN mappingOut.body._doc.properties) \cap {"_id", "__v", "id"} = {}

\* A field list with a null entry, a reserved name of a mapped type and an
\* ordinary field that is mapped.
C7_Witness ==
  /\ pc = "returned"
  /\ \E a, b, c \in DOMAIN fieldsIn.fields :
       /\ fieldsIn.fields[a] = NULL
       /\ fieldsIn.fields[b] = [name |-> "_id", type |-> "String"]
       /\ fieldsIn.fields[c] = [name |-> "name", type |-> "String"]
  /\ DOMAIN mappingOut.body._doc.properties = {"name"}

\* C8: no resolved field of getCollectionSchema carries the type Array, and
\* a field whose most probable type is Array is resolved with isArray.
C8_ArrayTagNeverSurvives ==
  pc = "returned" =>
    \A k \in DOMAIN schemaOut.fields :
      /\ schemaOut.fields[k] # NULL => schemaOut.fields[k].type # "Array"
      /\ (\A t \in DOMAIN schemaIn.fields[k].types :
            schemaIn.fields[k].types[t].name = "Array")
           => (schemaOut.fields[k] # NULL /\ schemaOut.fields[k].isArray)

(***************************************************************************)
(* Properties of run(), under Spec                                         *)
(***************************************************************************)
Before(q, p, op, k) == q < p /\ log[q].op = op /\ log[q].k = k /\ log[q].ok

DistinctIndexes ==
  \A a, b \in DOMAIN mappings : a # b => mappings[a].index # mappings[b].index

\* C1: after a run that ended without error, with pairwise distinct index
\* names, every index holds one document per source document of its
\* collection, under the text of its _id, and none it held before the run.
C1_FullResync ==
  (pc = "done" /\ DistinctIndexes) =>
    \A k \in DOMAIN collections :
      LET src == mongo[collections[k].name]
          idx == es[mappings[k].index]
      IN /\ idx.exists
         /\ Cardinality(idx.docs) = Len(src)
         /\ \A j \in DOMAIN src : \E d \in idx.docs : d.id = toString(src[j]._id)
         /\ idx.docs \cap esInit[mappings[k].index].docs = {}

\* C2: for each collection the delete of an existing index precedes its
\* create, the create precedes putMapping, and putMapping has completed
\* before the collection's bulk write is submitted.
C2_ResetOrder ==
  \A p \in DOMAIN log :
    /\ log[p].op = "create" =>
         \E q \in DOMAIN log :
           /\ Before(q, p, "exists", log[p].k)
           /\ log[q].res = "true" =>
                \E r \in DOMAIN log : q < r /\ Before(r, p, "delete", log[p].k)
    /\ log[p].op = "delete" =>
         \A q \in DOMAIN log : q < p => ~(log[q].op = "create" /\ log[q].k = log[p].k)
    /\ log[p].op = "putMapping" =>
         \E q \in DOMAIN log : Before(q, p, "create", log[p].k)
    /\ log[p].op = "bulk" =>
         \E q \in DOMAIN log : Before(q, p, "putMapping", log[p].k)

\* A finished run that found an index, deleted, created and mapped it and
\* wrote the collection's documents.
C2_Witness ==
  /\ pc = "done"
  /\ \E p, q, r, t \in DOMAIN log :
       /\ p < q /\ q < r /\ r < t
       /\ log[p].op = "delete" /\ log[q].op = "create"
       /\ log[r].op = "putMapping" /\ log[t].op = "bulk"
       /\ log[p].k = log[t].k /\ log[q].k = log[t].k /\ log[r].k = log[t].k

\* C3: while the schemas are probed and compiled, and when the run aborts
\* there, no call has gone to the search engine and every index is as it
\* was before the run.
C3_ProbeFailureTouchesNothing ==
  (pc = "probe" \/ (pc = "failed" /\ failedAt = "probe")) =>
    /\ \A p \in DOMAIN log : log[p].op \notin EsCalls
    /\ es = esInit

\* The probe of the second collection fails, with an index in place.
C3_Witness ==
  /\ pc = "failed"
  /\ failedAt = "probe"
  /\ i = 2
  /\ Len(collectionsSchemas) = 1
  /\ \E n \in IndexNames : esInit[n].exists

\* C4: a bulk response with a top-level error ends the run with an error
\* naming the collection, and nothing is fetched or written after it.
C4_BulkErrorIsFatal ==
  \A p \in DOMAIN log :
    (log[p].op = "bulk" /\ log[p].ok /\ log[p].res # "") =>
      /\ pc = "failed"
      /\ p = Len(log)
      /\ errorMsg = <<"Error syncing ", collections[log[p].k].name, ": ", log[p].res>>

\* The bulk write of a collection is answered with an error while a later
\* collection still has documents to sync.
C4_Witness ==
  /\ pc = "failed"
  /\ \E p \in DOMAIN log :
       /\ log[p].op = "bulk" /\ log[p].ok /\ log[p].res # ""
       /\ \E j \in DOMAIN collections : j > log[p].k /\ Len(mongo[collections[j].name]) > 0

\* C5: every action of a submitted bulk body targets the index getMapping
\* named for the collection (the collection name, or its singular form
\* under singularizeName), and that index was created earlier in the run.
C5_BulkTargetsMappedIndex ==
  \A p \in DOMAIN log :
    log[p].op = "bulk" =>
      \A q \in DOMAIN log[p].body :
        q % 2 = 1 =>
          LET target == log[p].body[q].index._index
              name == collections[log[p].k].name
          IN /\ target = mappings[log[p].k].index
             /\ target = IF singularizeName THEN singular(name) ELSE name
             /\ \E r \in DOMAIN log :
                  r < p /\ log[r].op = "create" /\ log[r].ok /\ log[r].index = target

\* Under singularizeName a bulk write goes to an index named differently
\* from its collection.
C5_Witness ==
  /\ singularizeName
  /\ \E p \in DOMAIN log :
       /\ log[p].op = "bulk" /\ log[p].ok /\ log[p].res = ""
       /\ log[p].body[1].index._index # collections[log[p].k].name

\* C9 as stated: every field of the collection's property table is a key of
\* every document body submitted for it.
C9_EveryMappedFieldInEveryBody ==
  \A p \in DOMAIN log :
    log[p].op = "bulk" =>
      \A q \in DOMAIN log[p].body :
        q % 2 = 0 =>
          DOMAIN mappings[log[p].k].body._doc.properties \subseteq DOMAIN log[p].body[q]

\* C9 amended: a field of the property table is a key of the body of
\* exactly the documents that hold it in the source.
C9_MappedFieldInBodyIffInSource ==
  \A p \in DOMAIN log :
    log[p].op = "bulk" =>
      LET src == mongo[collections[log[p].k].name] IN
        /\ Len(log[p].body) = 2 * Len(src)
        /\ \A j \in DOMAIN src :
             \A f \in DOMAIN mappings[log[p].k].body._doc.properties :
               f \in DOMAIN log[p].body[2 * j] <=> f \in DOMAIN src[j]

\* A collection with a mapped date field held by one of its two documents
\* is written.
C9_Witness ==
  \E p \in DOMAIN log :
    /\ log[p].op = "bulk" /\ log[p].ok /\ log[p].res = ""
    /\ Len(log[p].body) = 4
    /\ "signup" \in DOMAIN mappings[log[p].k].body._doc.properties
    /\ \E q \in {2, 4} : "signup" \in DOMAIN log[p].body[q]
    /\ \E q \in {2, 4} : "signup" \notin DOMAIN log[p].body[q]

ResetDoneBefore(p) ==
  \A j \in DOMAIN collections : \E q \in DOMAIN log : Before(q, p, "putMapping", j)

NothingWritten ==
  /\ \A p \in DOMAIN log : log[p].op # "bulk"
  /\ \A n \in IndexNames : es[n].docs \subseteq esInit[n].docs

ResetCalls == {"exists", "delete", "create", "putMapping"}

LaterIndexesReady(mustBeFresh) ==
  \A j \in DOMAIN collections :
    j > i =>
      /\ es[mappings[j].index].exists
      /\ mustBeFresh =>
           /\ es[mappings[j].index].props = mappings[j].body._doc.properties
           /\ es[mappings[j].index].docs = {}

\* C10 as stated: no bulk write before every index is reset; a failed reset
\* call leaves nothing written; after a failed bulk write the index of every
\* later collection exists, has its mapping and is empty.
C10_TwoPhases ==
  /\ \A p \in DOMAIN log : log[p].op = "bulk" => ResetDoneBefore(p)
  /\ (pc = "failed" /\ failedAt \in ResetCalls) => NothingWritten
  /\ (pc = "failed" /\ failedAt = "bulk") => LaterIndexesReady(TRUE)

\* C10 amended: the same, the mapping and the emptiness of the later
\* indexes being claimed only when the index names are pairwise distinct.
C10_TwoPhasesDistinctIndexes ==
  /\ \A p \in DOMAIN log : log[p].op = "bulk" => ResetDoneBefore(p)
  /\ (pc = "failed" /\ failedAt \in ResetCalls) => NothingWritten
  /\ (pc = "failed" /\ failedAt = "bulk") => LaterIndexesReady(DistinctIndexes)

\* The second of three collections fails its bulk write after the first
\* was written, all under distinct index names.
C10_Witness ==
  /\ pc = "failed"
  /\ failedAt = "bulk"
  /\ i = 2
  /\ Len(collections) = 3
  /\ DistinctIndexes
  /\ \E p \in DOMAIN log : log[p].op = "bulk" /\ log[p].ok /\ log[p].res = ""

====
